---- MODULE Spec2Model ----
(***************************************************************************)
(* Model of the Axter Telegram bot (src/main.py): the polling loop, the    *)
(* offset cursor, the users table with its authorization gate, the command *)
(* and image handlers, the callback router, and save/shutdown.             *)
(*                                                                         *)
(* One step of the model is one statement group of handle_updates: the    *)
(* shutdown check, the getUpdates request, one iteration of the loop over  *)
(* the fetched updates (offset advance plus the whole handler the update   *)
(* is dispatched to), and the return to the main loop.  Signals arrive     *)
(* between steps.  What an update of the batch holds is drawn when the     *)
(* loop reaches it: the program reads no update before its turn.           *)
(***************************************************************************)
EXTENDS Integers, Sequences, FiniteSets, TLC

VARIABLES
    pc,              \* "top" | "loop" | "exited" | "interrupted" | "crashed"
    offset,          \* self.offset
    users,           \* self.state['users']: a map from user id to record
    shutdown_primed, \* self.shutdown_primed
    left,            \* number of updates of the fetched batch (messages)
                     \* the for loop has not reached yet
    saved,           \* content of state.json: [offset, users]
    cur,             \* the update the loop body ran last (message)
    cur_id,          \* its update_id, -1 before the first
    calls,           \* handlers entered by the last step, in call order
    effects,         \* requests and native calls made by the last step
    hi               \* highest update_id iterated over so far, -1 if none

vars == <<pc, offset, users, shutdown_primed, left, saved, cur, cur_id,
          calls, effects, hi>>

----------------------------------------------------------------------------
(* Bounds of the model *)

MaxId == 2          \* update ids are 0..MaxId
MaxBatch == 2       \* a getUpdates batch holds at most MaxBatch updates

(* Values of the program *)

Owner == "1"                         \* self.state['owner']
UserIds == {"1", "42"}               \* str(message['from']['id'])
FileIds == {"f1", "f2"}              \* file_id values sent by Telegram
NoKey == "<no key>"                  \* a dict key that is not present
\* mutant: image/gif is accepted as well
accepted_types_WithGif == {"image/png", "image/jpeg", "image/jxl", "image/gif"}

accepted_types == {"image/png", "image/jpeg", "image/jxl"}
MimeTypes == {"image/png", "image/gif"}
Texts == {"/start", "/ping", "/shutdown", "/reset", "/save", "/desktop"}
Monitors == {"0", "1"}

Username(uid) == IF uid = Owner THEN "alice" ELSE "bob"

Max(a, b) == IF a >= b THEN a ELSE b

----------------------------------------------------------------------------
(* Updates as Telegram delivers them.  Every update is a record with the   *)
(* same fields; the fields a kind does not carry are empty.                *)

Upd(kind, from, has_username, part, text, photo, mime_type, file_id, data) ==
    [kind |-> kind, from |-> from, has_username |-> has_username,
     part |-> part, text |-> text, photo |-> photo, mime_type |-> mime_type,
     file_id |-> file_id, data |-> data]

NoUpdate == Upd("none", "", FALSE, "", "", <<>>, "", "", <<>>)

TextMessages ==
    { Upd("message", u, n, "text", t, <<>>, "", "", <<>>) :
        u \in UserIds, n \in BOOLEAN, t \in Texts }

\* message['photo'] is the list of sizes of one photo, each with a file_id
PhotoMessages ==
    { Upd("message", u, n, "photo", "", p, "", "", <<>>) :
        u \in UserIds, n \in BOOLEAN, p \in {<<"f1">>, <<"f1", "f2">>} }

DocumentMessages ==
    { Upd("message", u, n, "document", "", <<>>, m, f, <<>>) :
        u \in UserIds, n \in BOOLEAN, m \in MimeTypes, f \in FileIds }

\* a message with neither text, photo nor document (a sticker, a location)
OtherMessages ==
    { Upd("message", u, n, "other", "", <<>>, "", "", <<>>) :
        u \in UserIds, n \in BOOLEAN }

\* callback['data'], held as the parts data.split(':') yields;
\* `from` is callback['message']['chat']['id'], the chat the button was in,
\* `text` is callback['message']['text'], the text above the buttons
CallbackData ==
    { <<"new_user", a, u>> : a \in {"allow", "ban", "later"}, u \in UserIds }
    \cup { <<"desktop", m, u>> : m \in Monitors, u \in UserIds }
    \cup { <<"other", "x", "y">> }

Callbacks ==
    { Upd("callback_query", u, TRUE, "", "prompt text", <<>>, "", "", d) :
        u \in UserIds, d \in CallbackData }

\* an update that is neither a message nor a callback_query
OtherUpdates == { Upd("edited_message", u, TRUE, "", "", <<>>, "", "", <<>>) :
                    u \in {Owner} }

Updates == TextMessages \cup PhotoMessages \cup DocumentMessages
           \cup OtherMessages \cup Callbacks \cup OtherUpdates

----------------------------------------------------------------------------
(* Requests and native calls *)

Effect(op, to, text, markup) ==
    [op |-> op, to |-> to, text |-> text, markup |-> markup]

send_message(destination, text) ==
    Effect("sendMessage", destination, text, <<>>)

send_photo(destination, filepath, text) ==
    Effect("sendPhoto", destination, filepath \o text, <<>>)

set_desktop(file_path, monitor) ==
    Effect("set_desktop", monitor, file_path, <<>>)

----------------------------------------------------------------------------
(* The users table *)

NoUsers == [u \in {} |-> NoUpdate]

Put(usrs, k, rec) ==
    [u \in (DOMAIN usrs) \cup {k} |-> IF u = k THEN rec ELSE usrs[u]]

UserRecord(username, allowed) ==
    [username |-> username, file_id |-> "", allowed |-> allowed,
     state |-> NoKey]

----------------------------------------------------------------------------
(* save: the state written to state.json *)

save(usrs, off) == [offset |-> off, users |-> usrs]

(* What a handler leaves behind: the users table, the requests it made, the *)
(* handlers it entered, the content of state.json, and how it ended:       *)
(* "return", "exit" (shutdown called exit()) or "crash" (an exception      *)
(* nothing catches).                                                       *)
Result(usrs, eff, cls, sv, outcome) ==
    [users |-> usrs, effects |-> eff, calls |-> cls, saved |-> sv,
     outcome |-> outcome]

----------------------------------------------------------------------------
(* handle_commands: the match over message['text'] *)

\* mutant: /reset leaves the table as it is
ResetUsers_Keep(usrs) == usrs

\* the /reset case assigns a fresh empty dict to self.state['users']
ResetUsers(usrs) == NoUsers

\* mutant: the owner guard lets every sender through
IsOwner_Anyone(sender) == TRUE

\* the owner guard of the /shutdown and /reset cases
IsOwner(sender) == sender = Owner

handle_commands(message, sender, usrs, off, sv, cls0) ==
    LET cls == Append(cls0, "handle_commands") IN
    CASE message.text = "/start" ->
           Result(usrs, <<send_message(sender, <<"You're already confirmed :3">>)>>,
                  cls, sv, "return")
      [] message.text = "/ping" ->
           Result(usrs, <<send_message(sender, <<"Pong!">>)>>, cls, sv, "return")
      [] message.text = "/shutdown" ->
           IF ~IsOwner(sender)
           THEN Result(usrs, <<>>, cls, sv, "return")
           ELSE \* send_message, then shutdown(): save() and exit()
                Result(usrs,
                       <<send_message(sender, <<"Shutting down...">>),
                         Effect("save", "", <<>>, <<>>)>>,
                       cls, save(usrs, off), "exit")
      [] message.text = "/reset" ->
           IF ~IsOwner(sender)
           THEN Result(usrs, <<>>, cls, sv, "return")
           ELSE Result(ResetUsers(usrs),
                       <<send_message(sender, <<"State reset">>)>>,
                       cls, sv, "return")
      [] message.text = "/save" ->
           Result(usrs,
                  <<Effect("save", "", <<>>, <<>>),
                    send_message(sender, <<"State saved">>)>>,
                  cls, save(usrs, off), "return")
      [] OTHER -> Result(usrs, <<>>, cls, sv, "return")

----------------------------------------------------------------------------
(* handle_image *)

Last(s) == s[Len(s)]

MonitorPrompt(sender) ==
    Effect("sendMessage", sender,
           <<"Great!\nNow, which monitor should it apply to?">>,
           << <<"desktop", "1", sender>>, <<"desktop", "0", sender>>,
              <<"desktop", "2", sender>> >>)

handle_image(message, sender, usrs, off, sv, cls0) ==
    LET cls == Append(cls0, "handle_image")
        accept(file_id) ==
            Result([usrs EXCEPT ![sender].file_id = file_id],
                   <<MonitorPrompt(sender)>>, cls, sv, "return")
    IN  IF message.part = "photo"
        THEN accept(Last(message.photo))
        ELSE IF message.part = "document"
        THEN IF message.mime_type \notin accepted_types
             THEN Result(usrs,
                         <<send_message(sender,
                             <<"mimetype ", message.mime_type,
                               " unsupported.\nCurrently supported:",
                               "image/png, image/jpeg, image/jxl">>)>>,
                         cls, sv, "return")
             ELSE accept(message.file_id)
        ELSE Result(usrs,
                    <<send_message(sender,
                        <<"you somehow did something that should not happen. tell @",
                          Owner>>)>>,
                    cls, sv, "return")

----------------------------------------------------------------------------
(* handle_message: the authorization gate *)

\* mutant: the owner's record is made without the permission
OwnerRecord_NotAllowed(username) == UserRecord(username, FALSE)

\* mutant: a new user is allowed at once
NewUserRecord_Allowed(username) == UserRecord(username, TRUE)

\* the record made on the owner's first message
OwnerRecord(username) == UserRecord(username, TRUE)

\* the record made when an unknown user sends /start
NewUserRecord(username) == UserRecord(username, FALSE)

OwnerCommands(chat) ==
    Effect("setMyCommands", chat, <<"/ping", "/shutdown", "/reset">>, <<>>)

ApprovalPrompt(sender) ==
    Effect("sendMessage", Owner,
           <<"New user needing confirmation\nID: ", sender, "Username: @",
             Username(sender)>>,
           << <<"new_user", "allow", sender>>, <<"new_user", "ban", sender>> >>)

\* mutant: the banned check is skipped
IsBanned_Never(usrs, sender) == FALSE

\* "banned users": a known sender whose record has allowed == False
IsBanned(usrs, sender) == ~usrs[sender].allowed

\* the message of an unknown sender is looked at only if it has a text
HasText(message) == message.part = "text"

handle_message(message, usrs, off, sv) ==
    LET sender == message.from
        cls == <<"handle_message">>
    IN  IF sender \notin DOMAIN usrs
        THEN IF ~HasText(message)
             THEN Result(usrs, <<>>, cls, sv, "return")
             ELSE IF sender = Owner
             THEN IF ~message.has_username
                  THEN \* message['from']['username'] raises KeyError
                       Result(usrs, <<>>, cls, sv, "crash")
                  ELSE Result(Put(usrs, sender, OwnerRecord(Username(sender))),
                              <<send_message(sender,
                                  <<"Hello owner!\nAdded to allowed users.">>),
                                OwnerCommands(Owner)>>,
                              cls, sv, "return")
             ELSE IF message.text = "/start"
             THEN IF ~message.has_username
                  THEN Result(usrs,
                              <<send_message(sender,
                                  <<"Users without a username are unsupported.">>)>>,
                              cls, sv, "return")
                  ELSE Result(Put(usrs, sender, NewUserRecord(Username(sender))),
                              <<send_message(sender,
                                  <<"Hello new user!\nPlease wait until my owner confirms you.">>),
                                ApprovalPrompt(sender)>>,
                              cls, sv, "return")
             ELSE Result(usrs, <<>>, cls, sv, "return")
        ELSE IF IsBanned(usrs, sender)
        THEN Result(usrs, <<>>, cls, sv, "return")
        ELSE IF message.part = "text"
        THEN handle_commands(message, sender, usrs, off, sv, cls)
        ELSE IF message.part \in {"photo", "document"}
        THEN handle_image(message, sender, usrs, off, sv, cls)
        ELSE Result(usrs, <<>>, cls, sv, "return")

----------------------------------------------------------------------------
(* handle_callback: the callback router *)

\* mutant: the edit sends the buttons again
RemoveKeyboard_KeepsButtons(callback) ==
    Effect("editMessageText", callback.from, <<callback.text>>,
           << <<"new_user", "allow", "42">> >>)

\* the keyboard is removed by sending the same text with an empty markup
RemoveKeyboard(callback) ==
    Effect("editMessageText", callback.from, <<callback.text>>, <<>>)

UserCommands(chat) ==
    Effect("setMyCommands", chat, <<"/ping", "/desktop">>, <<>>)

\* mutant: every download goes to the same path
LocalPath_Fixed(file_id) == <<"images/", "image">>

LocalPath(file_id) == <<"images/", file_id>>

handle_callback(callback, usrs, off, sv) ==
    LET data == callback.data
        cls == <<"handle_callback">>
        action == data[2]
        monitor == data[2]
        user_id == data[3]
    IN  IF data[1] = "new_user"
        THEN IF action = "allow"
             THEN IF user_id \notin DOMAIN usrs
                  THEN \* self.state['users'][user_id] raises KeyError
                       Result(usrs, <<>>, cls, sv, "crash")
                  ELSE Result([usrs EXCEPT ![user_id].allowed = TRUE],
                              <<send_message(Owner,
                                  <<"Confirmed @", usrs[user_id].username, "!">>),
                                send_message(user_id, <<"You've been confirmed.">>),
                                RemoveKeyboard(callback),
                                UserCommands(user_id)>>,
                              cls, sv, "return")
             ELSE Result(usrs, <<>>, cls, sv, "return")
        ELSE IF data[1] = "desktop"
        THEN IF user_id \notin DOMAIN usrs
             THEN \* self.state['users'][user_id] raises KeyError
                  Result(usrs, <<>>, cls, sv, "crash")
             ELSE LET file_id == usrs[user_id].file_id IN
                  IF file_id = ""
                  THEN \* getFile with an empty file_id is answered with an
                       \* HTTP error, which request() logs and raises again
                       Result(usrs, <<Effect("getFile", "", <<file_id>>, <<>>)>>,
                              cls, sv, "crash")
                  ELSE Result([usrs EXCEPT ![user_id].state = ""],
                              <<Effect("getFile", "", <<file_id>>, <<>>),
                                Effect("urlretrieve", "", LocalPath(file_id), <<>>),
                                set_desktop(LocalPath(file_id), monitor),
                                RemoveKeyboard(callback),
                                send_photo(Owner, LocalPath(file_id),
                                    <<"New desktop set by @",
                                      usrs[user_id].username>>),
                                send_message(user_id, <<"Desktop set!">>)>>,
                              cls, sv, "return")
        ELSE Result(usrs, <<>>, cls, sv, "return")

----------------------------------------------------------------------------
(* handle_updates and the main loop *)

\* mutant: the assignment without its guard
AdvanceOffset_Unguarded(off, update_id) == update_id + 1

\* "update offset": the guarded assignment at the head of the loop body
AdvanceOffset(off, update_id) ==
    IF update_id >= off THEN update_id + 1 ELSE off

\* the if / elif / else that picks the handler of an update
Dispatched(update, usrs, off, sv) ==
    IF update.kind = "message" THEN handle_message(update, usrs, off, sv)
    ELSE IF update.kind = "callback_query"
    THEN handle_callback(update, usrs, off, sv)
    ELSE Result(usrs, <<>>, <<>>, sv, "return")

\* where the process is after a handler ended
After(outcome) ==
    CASE outcome = "exit" -> "exited"
      [] outcome = "crash" -> "crashed"
      [] OTHER -> "loop"

Running == pc \in {"top", "loop"}

UpdateIds == 0..MaxId

Init ==
    /\ pc = "top"
    /\ offset = 0
    /\ users = NoUsers
    /\ shutdown_primed = FALSE
    /\ left = 0
    /\ saved = save(NoUsers, 0)
    /\ cur = NoUpdate
    /\ cur_id = -1
    /\ calls = <<>>
    /\ effects = <<>>
    /\ hi = -1

\* handle_updates, shutdown_primed set: shutdown(), that is save() and exit()
Shutdown ==
    /\ pc = "top"
    /\ shutdown_primed
    /\ saved' = save(users, offset)
    /\ effects' = <<Effect("save", "", <<>>, <<>>)>>
    /\ calls' = <<>>
    /\ pc' = "exited"
    /\ UNCHANGED <<offset, users, shutdown_primed, left, cur, cur_id, hi>>

\* handle_updates, shutdown_primed clear: the getUpdates request
GetUpdates ==
    /\ pc = "top"
    /\ ~shutdown_primed
    /\ \E n \in 0..MaxBatch : left' = n
    /\ effects' = <<Effect("getUpdates", "", <<>>, <<>>)>>
    /\ calls' = <<>>
    /\ pc' = "loop"
    /\ UNCHANGED <<offset, users, shutdown_primed, saved, cur, cur_id, hi>>

\* one iteration of the loop over the batch, for an update with an id of
\* Ids and a content of Contents
DispatchOf(Ids, Contents) ==
    /\ pc = "loop"
    /\ left > 0
    /\ \E update_id \in Ids, update \in Contents :
         LET off == AdvanceOffset(offset, update_id)
             r == Dispatched(update, users, off, saved)
         IN  /\ offset' = off
             /\ hi' = Max(hi, update_id)
             /\ cur' = update
             /\ cur_id' = update_id
             /\ users' = r.users
             /\ saved' = r.saved
             /\ effects' = r.effects
             /\ calls' = r.calls
             /\ pc' = After(r.outcome)
    /\ left' = left - 1
    /\ UNCHANGED shutdown_primed

\* the loop is over: handle_updates returns, the main loop sleeps
Return ==
    /\ pc = "loop"
    /\ left = 0
    /\ pc' = "top"
    /\ effects' = <<>>
    /\ calls' = <<>>
    /\ UNCHANGED <<offset, users, shutdown_primed, left, saved, cur, cur_id, hi>>

\* handle_sigterm
Sigterm ==
    /\ Running
    /\ ~shutdown_primed
    /\ shutdown_primed' = TRUE
    /\ UNCHANGED <<pc, offset, users, left, saved, cur, cur_id, calls, effects, hi>>

\* KeyboardInterrupt leaves the while loop: the except clause sets the flag
\* and the script ends
KeyboardInterrupt ==
    /\ Running
    /\ shutdown_primed' = TRUE
    /\ pc' = "interrupted"
    /\ UNCHANGED <<offset, users, left, saved, cur, cur_id, calls, effects, hi>>

----------------------------------------------------------------------------
(* Spec: the polling loop with its cursor, persistence and shutdown.  The  *)
(* server may deliver any update id in any order; the contents are the     *)
(* ones that reach every way a handler can end and every write of users.   *)

PollUpdates ==
    { Upd("message", Owner, TRUE, "text", t, <<>>, "", "", <<>>) :
        t \in {"/ping", "/shutdown", "/save", "/reset"} }
    \cup { Upd("message", "42", TRUE, "text", "/start", <<>>, "", "", <<>>),
           Upd("callback_query", Owner, TRUE, "", "prompt text", <<>>, "", "",
               <<"new_user", "allow", "42">>) }
    \cup OtherUpdates

Dispatch == DispatchOf(UpdateIds, PollUpdates)

Next ==
    \/ Shutdown
    \/ GetUpdates
    \/ Dispatch
    \/ Return
    \/ Sigterm
    \/ KeyboardInterrupt

Spec == Init /\ [][Next]_vars

----------------------------------------------------------------------------
(* SpecUsers: the authorization gate, the commands, the image intake and   *)
(* the callback router, over every content of Updates but the /save text.  *)
(* No handler reads update_id, so every update carries the same one, and   *)
(* no signal arrives.                                                      *)

UserUpdates == { u \in Updates : u.text # "/save" }

DispatchUsers == DispatchOf({0}, UserUpdates)

NextUsers ==
    \/ GetUpdates
    \/ DispatchUsers
    \/ Return

SpecUsers == Init /\ [][NextUsers]_vars

----------------------------------------------------------------------------
(* Properties *)

\* a step that runs the loop body once; cur', calls' and effects' are then
\* the update it ran and what the handler did
DispatchStep == pc = "loop" /\ left' = left - 1

MessageStep == DispatchStep /\ cur'.kind = "message"

Known(usrs, uid) == uid \in DOMAIN usrs

\* C1: the offset never decreases, and after every update the loop body has
\* run (so after every batch and every sequence of batches) it is the larger
\* of the offset before and 1 + the highest update_id delivered so far.
C1_OffsetIsMax ==
    [][ /\ offset' >= offset
        /\ offset' = Max(offset, hi' + 1) ]_vars

\* C1 witness: handle_updates has returned after an update whose id is below
\* the highest one delivered, and the offset is still that highest id + 1.
C1_Witness ==
    /\ pc = "top"
    /\ cur_id >= 0
    /\ cur_id < hi
    /\ offset = hi + 1

\* C2: an update whose update_id is below the offset when the loop reaches it
\* is handed neither to handle_message nor to handle_callback.
C2_NoRedispatch ==
    [][ (DispatchStep /\ cur_id' < offset) => calls' = <<>> ]_vars

\* C3: a message from a sender whose record has allowed == FALSE sends
\* nothing, leaves users unchanged and reaches neither handle_commands nor
\* handle_image.
C3_BannedDropped ==
    [][ (/\ MessageStep
         /\ Known(users, cur'.from)
         /\ ~users[cur'.from].allowed)
        => (/\ effects' = <<>>
            /\ users' = users
            /\ calls' = <<"handle_message">>) ]_vars

\* C3 witness: a repeated /start of a banned sender has been dropped.
C3_Witness ==
    /\ cur.kind = "message"
    /\ cur.text = "/start"
    /\ Known(users, cur.from)
    /\ ~users[cur.from].allowed
    /\ calls = <<"handle_message">>
    /\ effects = <<>>
    /\ pc = "loop"

\* C4: whenever the owner has a record, that record has allowed == TRUE.
C4_OwnerAllowed ==
    Known(users, Owner) => users[Owner].allowed

\* C4 witness: the owner's record has just been made by the owner's first
\* message while another user's record is waiting for approval.
C4_Witness ==
    /\ Known(users, Owner)
    /\ users[Owner].allowed
    /\ Known(users, "42")
    /\ ~users["42"].allowed
    /\ cur.from = Owner
    /\ Len(effects) = 2
    /\ effects[2].op = "setMyCommands"

\* a /reset text sent by the owner
OwnerResetStep ==
    MessageStep /\ cur'.from = Owner /\ cur'.text = "/reset"

C6_OwnerRegains ==
    [][ (/\ cur.kind = "message" /\ cur.from = Owner /\ cur.text = "/reset"
         /\ users = NoUsers
         /\ MessageStep
         /\ cur'.from = Owner
         /\ cur'.has_username
         /\ cur'.part \in {"text", "photo", "document"})
        => (Known(users', Owner) /\ users'[Owner].allowed) ]_vars

\* C7: whenever the next request is getUpdates, every change of the offset
\* and of users has been saved.
C7_SavedBeforeGetUpdates ==
    (pc = "top" /\ ~shutdown_primed)
        => (saved.offset = offset /\ saved.users = users)

\* C8: the process exits through shutdown() only with no update of the
\* fetched batch left undispatched.
C8_ExitOnlyAtTop ==
    pc = "exited" => left = 0

\* C9: whenever the process has ended through shutdown() or through
\* KeyboardInterrupt, state.json holds the offset and the users table the
\* process had.
C9_SavedAtExit ==
    pc \in {"exited", "interrupted"} => saved = save(users, offset)

\* C10: a message of an unknown sender who is not the owner makes a record
\* exactly when it is the text /start and the sender has a username; the
\* record has allowed == FALSE, the sender is told to wait and the owner gets
\* the prompt with the allow and ban buttons; /start without a username gets
\* the "unsupported" reply and nothing else does anything.
C10_Registration ==
    [][ (/\ MessageStep
         /\ ~Known(users, cur'.from)
         /\ cur'.from # Owner)
        => LET s == cur'.from
               start == cur'.part = "text" /\ cur'.text = "/start"
           IN  /\ Known(users', s) <=> (start /\ cur'.has_username)
               /\ \A u \in DOMAIN users : Known(users', u) /\ users'[u] = users[u]
               /\ DOMAIN users' \subseteq DOMAIN users \cup {s}
               /\ (start /\ cur'.has_username) =>
                     /\ users'[s].allowed = FALSE
                     /\ Len(effects') = 2
                     /\ effects'[1] = Effect("sendMessage", s,
                          <<"Hello new user!\nPlease wait until my owner confirms you.">>,
                          <<>>)
                     /\ effects'[2].op = "sendMessage"
                     /\ effects'[2].to = Owner
                     /\ effects'[2].markup =
                          << <<"new_user", "allow", s>>, <<"new_user", "ban", s>> >>
               /\ (start /\ ~cur'.has_username) =>
                     effects' = <<Effect("sendMessage", s,
                          <<"Users without a username are unsupported.">>, <<>>)>>
               /\ ~start => effects' = <<>> ]_vars

\* C10 witness: user 42 has just been registered by /start and the owner has
\* been sent the prompt.
C10_Witness ==
    /\ cur.kind = "message"
    /\ cur.from = "42"
    /\ cur.text = "/start"
    /\ cur.has_username
    /\ Known(users, "42")
    /\ ~users["42"].allowed
    /\ Len(effects) = 2
    /\ effects[2].to = Owner
    /\ effects[2].markup = << <<"new_user", "allow", "42">>, <<"new_user", "ban", "42">> >>

----------------------------------------------------------------------------
(* Properties of the callback router and of the image workflow *)

CallbackStep == DispatchStep /\ cur'.kind = "callback_query"

\* a step that runs the desktop branch of handle_callback for an existing
\* record
DesktopStep ==
    CallbackStep /\ cur'.data[1] = "desktop" /\ Known(users, cur'.data[3])

\* a message of a sender who has a record with allowed == TRUE
AllowedMessageStep ==
    MessageStep /\ Known(users, cur'.from) /\ users[cur'.from].allowed

Ops(eff) == { eff[k].op : k \in DOMAIN eff }

\* C11: the callback new_user:allow:<uid> for a uid with a record sets that
\* record's allowed to TRUE and changes nothing else of users, tells the
\* owner and uid, and sends the prompt's text again with no keyboard.
C11_Allow ==
    [][ (/\ CallbackStep
         /\ cur'.data[1] = "new_user"
         /\ cur'.data[2] = "allow"
         /\ Known(users, cur'.data[3]))
        => LET uid == cur'.data[3] IN
           /\ users' = [users EXCEPT ![uid].allowed = TRUE]
           /\ Len(effects') = 4
           /\ effects'[1].op = "sendMessage" /\ effects'[1].to = Owner
           /\ effects'[2] = Effect("sendMessage", uid,
                                   <<"You've been confirmed.">>, <<>>)
           /\ effects'[3] = Effect("editMessageText", cur'.from,
                                   <<cur'.text>>, <<>>) ]_vars

\* C11 witness: user 42, who was waiting, has just been allowed while the
\* owner's record is there.
C11_Witness ==
    /\ cur.kind = "callback_query"
    /\ cur.data = <<"new_user", "allow", "42">>
    /\ Known(users, "42") /\ users["42"].allowed
    /\ Known(users, Owner)
    /\ Len(effects) = 4
    /\ effects[3].op = "editMessageText"
    /\ effects[3].markup = <<>>

\* C12: an allowed user who sends /desktop gets the upload prompt, and an
\* image is stored and the monitors offered only to a user who is awaiting
\* an image.
C12_DesktopCommand ==
    [][ /\ (AllowedMessageStep /\ cur'.text = "/desktop")
            => \E k \in DOMAIN effects' :
                 effects'[k].op = "sendMessage" /\ effects'[k].to = cur'.from
        /\ (AllowedMessageStep /\ users' # users
              /\ cur'.part \in {"photo", "document"})
            => users[cur'.from].state = "AwaitingImage" ]_vars

\* C13: a document of a type that is not accepted, sent by an allowed user,
\* gets the reply that lists the accepted types, sends no monitor prompt and
\* leaves users unchanged.
C13_BadTypeRejected ==
    [][ (/\ AllowedMessageStep
         /\ cur'.part = "document"
         /\ cur'.mime_type \notin {"image/png", "image/jpeg", "image/jxl"})
        => (/\ users' = users
            /\ Len(effects') = 1
            /\ effects'[1].op = "sendMessage"
            /\ effects'[1].to = cur'.from
            /\ effects'[1].markup = <<>>
            /\ effects'[1].text[2] = cur'.mime_type
            /\ effects'[1].text[4] = "image/png, image/jpeg, image/jxl") ]_vars

\* C13 witness: user 42, allowed and holding the file f1 from an earlier
\* upload, has just had an image/gif document rejected.
C13_Witness ==
    /\ cur.kind = "message"
    /\ cur.from = "42"
    /\ cur.part = "document"
    /\ cur.mime_type = "image/gif"
    /\ cur.file_id = "f2"
    /\ Known(users, "42") /\ users["42"].allowed
    /\ users["42"].file_id = "f1"
    /\ Len(effects) = 1
    /\ effects[1].markup = <<>>

\* C14: an accepted document stores its file_id for the sender, and the
\* callback desktop:<m>:<uid> for a uid with a stored file calls set_desktop
\* exactly once, with monitor m and the local path of the stored file, after
\* downloading it to that path; it sets uid's state to '', sends the image
\* to the owner and tells uid that the desktop is set.
C14_Apply ==
    [][ /\ (/\ AllowedMessageStep
            /\ cur'.part = "document"
            /\ cur'.mime_type \in {"image/png", "image/jpeg", "image/jxl"})
           => users' = [users EXCEPT ![cur'.from].file_id = cur'.file_id]
        /\ (DesktopStep /\ users[cur'.data[3]].file_id # "")
           => LET uid == cur'.data[3]
                  f == users[uid].file_id
                  applied == { k \in DOMAIN effects' :
                                 effects'[k].op = "set_desktop" }
              IN  /\ Cardinality(applied) = 1
                  /\ \A k \in applied :
                       /\ effects'[k].to = cur'.data[2]
                       /\ effects'[k].text = <<"images/", f>>
                       /\ \E j \in 1..(k - 1) :
                            /\ effects'[j].op = "urlretrieve"
                            /\ effects'[j].text = <<"images/", f>>
                  /\ users' = [users EXCEPT ![uid].state = ""]
                  /\ \E k \in DOMAIN effects' :
                       /\ effects'[k].op = "sendPhoto"
                       /\ effects'[k].to = Owner
                       /\ SubSeq(effects'[k].text, 1, 2) = <<"images/", f>>
                  /\ effects'[Len(effects')] =
                       Effect("sendMessage", uid, <<"Desktop set!">>, <<>>) ]_vars

\* C14 witness: the callback desktop:1:42 has just applied f2, the file
\* stored for user 42, to monitor 1.
C14_Witness ==
    /\ cur.kind = "callback_query"
    /\ cur.data = <<"desktop", "1", "42">>
    /\ Known(users, "42")
    /\ users["42"].file_id = "f2"
    /\ users["42"].state = ""
    /\ "set_desktop" \in Ops(effects)
    /\ \E k \in DOMAIN effects :
         effects[k] = Effect("set_desktop", "1", <<"images/", "f2">>, <<>>)

\* C15: once a desktop callback has applied uid's image, uid's file_id is
\* empty.
C15_FileCleared ==
    [][ (DesktopStep /\ "set_desktop" \in Ops(effects'))
        => users'[cur'.data[3]].file_id = "" ]_vars

\* C16: a desktop callback for a uid with no record or with an empty
\* file_id downloads nothing, applies nothing, leaves users unchanged and
\* leaves the loop running.
C16_MissingFileRecovered ==
    [][ (/\ CallbackStep
         /\ cur'.data[1] = "desktop"
         /\ (Known(users, cur'.data[3]) => users[cur'.data[3]].file_id = ""))
        => (/\ pc' = "loop"
            /\ users' = users
            /\ Ops(effects') \cap {"getFile", "urlretrieve", "set_desktop"} = {}) ]_vars

\* C17: a photo sent by an allowed user is never stored as the sender's
\* file_id and gets no monitor prompt, but a reply.
C17_PhotoRejected ==
    [][ (AllowedMessageStep /\ cur'.part = "photo")
        => (/\ users' = users
            /\ Len(effects') = 1
            /\ effects'[1].op = "sendMessage"
            /\ effects'[1].markup = <<>>) ]_vars

\* C18: /reset and /shutdown sent by an allowed user who is not the owner
\* change nothing: users and state.json stay, the flag stays, the process
\* goes on, and nothing is sent.
C18_AdminOwnerOnly ==
    [][ (/\ AllowedMessageStep
         /\ cur'.from # Owner
         /\ cur'.text \in {"/reset", "/shutdown"})
        => (/\ users' = users
            /\ saved' = saved
            /\ shutdown_primed' = shutdown_primed
            /\ pc' = "loop"
            /\ effects' = <<>>) ]_vars

\* C18 witness: the allowed user 42 has just sent /reset and the table
\* still holds both records.
C18_Witness ==
    /\ cur.kind = "message"
    /\ cur.from = "42"
    /\ cur.text = "/reset"
    /\ Known(users, "42") /\ users["42"].allowed
    /\ Known(users, Owner)
    /\ calls = <<"handle_message", "handle_commands">>
    /\ effects = <<>>
    /\ pc = "loop"

\* C19: whenever the process has stopped inside the dispatch of an update,
\* state.json holds an offset above that update's id.
C19_SavedOffsetPastUpdate ==
    (pc \in {"exited", "crashed"} /\ calls # <<>>) => saved.offset > cur_id

\* C20: the allowed flag of a record of a user other than the owner turns
\* TRUE only in the dispatch of a new_user:allow callback that names the user
\* and comes from the owner.
C20_OnlyOwnerAllows ==
    [][ \A u \in UserIds \ {Owner} :
          (/\ Known(users, u) /\ ~users[u].allowed
           /\ Known(users', u) /\ users'[u].allowed)
          => (/\ CallbackStep
              /\ cur'.data = <<"new_user", "allow", u>>
              /\ cur'.from = Owner) ]_vars

====
